---- MODULE Spec2Model ----
(***************************************************************************)
(* Account-abstraction transaction pipeline of DeFiGuardian:               *)
(*   - TransactionService.executeGaslessRevoke  (transaction-service.ts)   *)
(*   - PaymasterService.executeGaslessRevoke    (paymaster-service.ts)     *)
(*   - SmartAccountService.deploySmartAccount   (smart-account-service)    *)
(*   - checkRateLimit and POST /api/smart-account/deploy (routes.ts)       *)
(* Every `await` of the source is a suspension point, hence a step.        *)
(***************************************************************************)
EXTENDS Integers, Sequences, FiniteSets, TLC

(***************************************************************************)
(* Bounds of the model                                                     *)
(***************************************************************************)
MaxOps == 2
MaxTxs == 2
MaxTicks == 2

(***************************************************************************)
(* Addresses.  Owner keys are "o1", "o2".  A smart-account address has a   *)
(* checksummed (mixed-case) form "A1" and an all-lowercase form "a1"; the  *)
(* chain and String.toLowerCase() identify the two.  Callers supply the    *)
(* account of o1 in either form: with owner o2 it is a foreign address.    *)
(***************************************************************************)
Owners == {"o1", "o2"}
Tokens == {"t1"}
Spenders == {"s1"}
AddrForms == {"A1", "a1"}
Accounts == {"a1"}
Amounts == {0, 1000000}

ToLower(a) ==
  CASE a = "A1" -> "a1"
    [] a = "A2" -> "a2"
    [] a = "K1" -> "k1"
    [] a = "K2" -> "k2"
    [] OTHER -> a

\* toMetaMaskSmartAccount({deployParams: [owner, [], [], []], deploySalt:
\* keccak256(owner)}).address : the counterfactual address, checksummed form.
SmartAccountAddress(owner) ==
  CASE owner = "o1" -> "A1"
    [] owner = "o2" -> "A2"

(***************************************************************************)
(* Error texts, as sequences of words; String.includes(w) is membership.   *)
(***************************************************************************)
Includes(msg, w) == \E k \in DOMAIN msg : msg[k] = w

MsgPimlicoKey == <<"PIMLICO_API_KEY", "environment", "variable", "is", "required">>
MsgDeployerKey == <<"DEPLOYER_PRIVATE_KEY", "environment", "variable", "is", "required">>
MsgNoClient == <<"Paymaster/", "bundler", "client", "not", "configured">>
MsgMismatch == <<"Smart", "account", "address", "mismatch", "during", "gasless", "operation">>
MsgPaymasterError == <<"Paymaster", "error:", "Gas", "sponsorship", "failed">>
MsgBundlerError == <<"Bundler", "error:", "Failed", "to", "submit", "UserOperation">>
MsgTimeout == <<"Timed", "out", "while", "waiting", "for", "User", "Operation">>
MsgRpc == <<"HTTP", "request", "failed">>
PrefixRevoke == <<"Failed", "to", "execute", "gasless", "revoke:">>
PrefixAllowance == <<"Failed", "to", "read", "allowance", "from", "blockchain:">>

\* Texts the external bundler/paymaster RPC may answer a submit with.
GatewayErrors ==
  { <<"paymaster", "rejected", "sponsorship">>,
    <<"bundler", "unreachable">>,
    <<"bundler", "reports", "paymaster", "deposit", "too", "low">>,
    <<"AA23", "reverted">> }

VARIABLES
  workload,   \* which requests the environment issues in this behaviour
  env,        \* process environment: which credentials/clients are configured
  allowance,  \* chain state: [token, account, spender] -> amount
  userOps,    \* gateway state: the UserOperations accepted so far, by hash
  rv,         \* the executeGaslessRevoke invocations, one record per caller
  now,        \* Date.now(), in milliseconds
  deploymentRateLimits, \* routes.ts: owner -> timestamps of admitted attempts
  admitted,   \* history: the admitted attempts of the last window, per owner
  smartAccounts, \* MemStorage.smartAccounts: the keys (addresses as inserted)
  code,       \* chain state: the accounts that have bytecode
  deployTxs,  \* chain state: the deployment transactions sent so far, by hash
  dp,         \* the POST /api/smart-account/deploy requests, one record per client
  sig,        \* the risk signal last handled on an automatic path, and the decision
  clientTx,   \* chain state: the transaction the user's wallet sent to revoke
  cf,         \* the POST /api/events/revoke-confirm request and the event it is for
  cr,         \* the last POST /api/smart-account/create request and its answer
  created,    \* history: owner -> the addresses createSmartAccount returned for it
  intervals,  \* monitor-service.ts: address -> the timer handle registered for it
  timers,     \* the Node timers created by setInterval, by handle: active or cleared
  mon,        \* the startMonitoringAddress calls, one record per caller
  stopped,    \* history: stopMonitoringAddress returned with no start in progress
              \* and startMonitoringAddress has not been called since
  observed,   \* chain state: the approval transactions the indexer reports
  riskEvents, \* MemStorage.riskEvents of the monitored account, per transaction
              \* hash: how many events were stored and revokes attempted
  sockets,    \* the WebSocket connections: readyState / whether "close" fired
  wsClients,  \* routes.ts: account key -> the sockets subscribed to it
  subscribed, \* history: the <<socket, account key>> pairs of subscribe messages
  sent        \* the last broadcast: the account and the sockets it was sent to

revokeVars == <<allowance, userOps, rv>>
deployVars == <<now, deploymentRateLimits, admitted, smartAccounts, code, deployTxs, dp>>
sigVars == <<sig>>
confirmVars == <<clientTx, cf>>
createVars == <<cr, created>>
monitorVars == <<intervals, timers, mon, stopped, observed, riskEvents>>
wsVars == <<sockets, wsClients, subscribed, sent>>
sideVars == <<sigVars, confirmVars, createVars, monitorVars, wsVars>>
vars == <<workload, env, sideVars, revokeVars, deployVars>>

\* The callers whose invocations may overlap: the manual route
\* (POST /api/events/revoke) and the automatic, risk-triggered path.
Invs == {"manual", "auto"}

NoResult == [kind |-> "none", status |-> "none", txHash |-> <<>>, userOpHash |-> <<>>, msg |-> <<>>]
Returned(st, tx, uo) == [kind |-> "return", status |-> st, txHash |-> <<tx>>, userOpHash |-> uo, msg |-> <<>>]
Thrown(m) == [kind |-> "throw", status |-> "none", txHash |-> <<>>, userOpHash |-> <<>>, msg |-> m]

\* `0x${"0".repeat(64)}` : the all-zero transaction hash.  Real hashes are 1, 2, ...
ZeroHash == 0
TxHashOf(h) == h

\* The handlers that call executeGaslessRevoke: the manual route and the three
\* automatic ones.
PathsOf(i) == IF i = "manual" THEN {"manual"} ELSE {"simulate", "ingest", "monitor"}

\* path   : the handler that made the call
\* event  : status of the risk event the call is for
\* audits : statuses of the "revoke_approval" audit records the handler wrote
\* http   : status code of the handler's HTTP response (0: none sent; the
\*          monitor's poll answers no request)
IdleInv ==
  [pc |-> "idle", path |-> "manual", token |-> "t1", spender |-> "s1", owner |-> "o1",
   sa |-> "a1", currentAllowance |-> <<>>, userOpHash |-> <<>>, net |-> <<>>,
   result |-> NoResult, event |-> "detected", audits |-> <<>>, http |-> 0]

\* The invocation's traffic with the chain RPC and the gateway, in order: a call
\* is logged when it is issued, its failure when the error response arrives.
Log(r, e) == [r EXCEPT !.net = @ \o <<e>>]
Issued(r, e) == Includes(r.net, e)

\* module initialisation of paymaster-service.ts: the clients exist only when a
\* bundler URL or an API key is configured and their construction did not throw.
ClientsConfigured(e) == e.clientInitOk /\ (e.fastlaneUrl \/ e.pimlicoKey)

Env(p, d, f, c) == [pimlicoKey |-> p, deployerKey |-> d, fastlaneUrl |-> f, clientInitOk |-> c]

\* The process environments explored: fully configured; no API key (bundler URL
\* given instead); no signing key; client construction failed; nothing set.
Envs ==
  { Env(TRUE, TRUE, FALSE, TRUE), Env(FALSE, TRUE, TRUE, TRUE), Env(TRUE, FALSE, FALSE, TRUE),
    Env(TRUE, TRUE, FALSE, FALSE), Env(FALSE, FALSE, FALSE, TRUE) }

\* The three runtime configuration checks of PaymasterService.executeGaslessRevoke;
\* <<>> when all pass.
ConfigError(e) ==
  IF ~e.pimlicoKey THEN MsgPimlicoKey
  ELSE IF ~e.deployerKey THEN MsgDeployerKey
  ELSE IF ~ClientsConfigured(e) THEN MsgNoClient
  ELSE <<>>

\* PaymasterCatch with the two tests in the other order
PaymasterCatch_BundlerFirst(m) ==
  IF Includes(m, "bundler") THEN MsgBundlerError
  ELSE IF Includes(m, "paymaster") THEN MsgPaymasterError
  ELSE PrefixRevoke \o m

\* catch block of PaymasterService.executeGaslessRevoke
PaymasterCatch(m) ==
  IF Includes(m, "paymaster") THEN MsgPaymasterError
  ELSE IF Includes(m, "bundler") THEN MsgBundlerError
  ELSE PrefixRevoke \o m

\* catch block of TransactionService.executeGaslessRevoke
TransactionCatch(m) == PrefixRevoke \o m

\* publicClient.readContract({functionName: "allowance", args: [owner, spender]})
ReadAllowance(tk, ownerAddr, sp) == allowance[<<tk, ToLower(ownerAddr), sp>>]

Triples == Tokens \X Accounts \X Spenders

(***************************************************************************)
(* TransactionService.executeGaslessRevoke is called (by a route or by the *)
(* monitor); it runs up to its first await, the allowance read.            *)
(***************************************************************************)
\* Call with the allowance check left out: building starts at once
Call_SkipsAllowanceCheck(i, tk, sp, ow, sa) ==
  /\ workload = "revoke"
  /\ rv[i].pc \in {"idle", "done"}
  /\ \E p \in PathsOf(i) :
       rv' = [rv EXCEPT ![i] =
                [IdleInv EXCEPT !.pc = "derive", !.path = p, !.token = tk,
                                !.spender = sp, !.owner = ow, !.sa = sa]]
  /\ UNCHANGED <<workload, env, sideVars, allowance, userOps, deployVars>>

Call(i, tk, sp, ow, sa) ==
  /\ workload = "revoke"
  /\ rv[i].pc \in {"idle", "done"}
  /\ \E p \in PathsOf(i) :
       rv' = [rv EXCEPT ![i] =
                [IdleInv EXCEPT !.pc = "getAllowance", !.path = p, !.token = tk,
                                !.spender = sp, !.owner = ow, !.sa = sa,
                                !.net = <<"allowance">>]]
  /\ UNCHANGED <<workload, env, sideVars, allowance, userOps, deployVars>>

\* AfterAllowance without the zero short-circuit
AfterAllowance_NoShortCircuit(r, a) ==
  IF ConfigError(env) # <<>>
  THEN [r EXCEPT !.pc = "done", !.currentAllowance = <<a>>,
                 !.result = Thrown(TransactionCatch(PaymasterCatch(ConfigError(env))))]
  ELSE [r EXCEPT !.pc = "derive", !.currentAllowance = <<a>>]

\* AfterAllowance with the zero short-circuit taken on the manual path only
AfterAllowance_ManualOnlyShortCircuit(r, a) ==
  IF a = 0 /\ r.path = "manual"
  THEN [r EXCEPT !.pc = "done", !.currentAllowance = <<a>>,
                 !.result = Returned("confirmed", ZeroHash, <<>>)]
  ELSE AfterAllowance_NoShortCircuit(r, a)

\* What the invocation does, synchronously, once the allowance read returned `a`:
\* the zero short-circuit, else the call into PaymasterService up to its first
\* await (toMetaMaskSmartAccount), which the configuration checks precede.
AfterAllowance(r, a) ==
  IF a = 0
  THEN [r EXCEPT !.pc = "done", !.currentAllowance = <<a>>,
                 !.result = Returned("confirmed", ZeroHash, <<>>)]
  ELSE IF ConfigError(env) # <<>>
  THEN [r EXCEPT !.pc = "done", !.currentAllowance = <<a>>,
                 !.result = Thrown(TransactionCatch(PaymasterCatch(ConfigError(env))))]
  ELSE [r EXCEPT !.pc = "derive", !.currentAllowance = <<a>>]

\* What the calling handler does once executeGaslessRevoke has settled.
\* Returned: every handler marks the event "revoked" and writes a record,
\* "success" for status confirmed and "pending" otherwise.  Thrown: the manual
\* route and simulate write a "failed" record in their catch block; ingest-tx
\* and the monitor only log to the console.
\* The response: the manual route answers 200, or 500 from its catch block;
\* simulate and ingest-tx go on and answer 200 with the event either way.
HttpAfterRevoke(r) ==
  IF r.path = "monitor" THEN 0
  ELSE IF r.path = "manual" /\ r.result.kind = "throw" THEN 500
  ELSE 200

\* AfterRevoke with the event marked before the outcome is looked at
AfterRevoke_MarksEventFirst(r) ==
  IF r.pc # "done" THEN r
  ELSE IF r.result.kind = "return"
  THEN [r EXCEPT !.event = "revoked", !.http = HttpAfterRevoke(r),
                 !.audits = <<IF r.result.status = "confirmed" THEN "success" ELSE "pending">>]
  ELSE IF r.path \in {"manual", "simulate"}
  THEN [r EXCEPT !.event = "revoked", !.audits = <<"failed">>, !.http = HttpAfterRevoke(r)]
  ELSE [r EXCEPT !.event = "revoked", !.http = HttpAfterRevoke(r)]

AfterRevoke(r) ==
  IF r.pc # "done" THEN r
  ELSE IF r.result.kind = "return"
  THEN [r EXCEPT !.event = "revoked", !.http = HttpAfterRevoke(r),
                 !.audits = <<IF r.result.status = "confirmed" THEN "success" ELSE "pending">>]
  ELSE IF r.path \in {"manual", "simulate"}
  THEN [r EXCEPT !.audits = <<"failed">>, !.http = HttpAfterRevoke(r)]
  ELSE [r EXCEPT !.http = HttpAfterRevoke(r)]

AllowanceReadOk(i) ==
  /\ rv[i].pc = "getAllowance"
  /\ rv' = [rv EXCEPT ![i] =
              AfterRevoke(AfterAllowance(rv[i], ReadAllowance(rv[i].token, rv[i].sa, rv[i].spender)))]
  /\ UNCHANGED <<workload, env, sideVars, allowance, userOps, deployVars>>

\* getAllowance's catch as it was before the hardening: `return BigInt(0)`
GetAllowanceOnError_ReturnsZero(r, m) == AfterAllowance(r, 0)

\* getAllowance's catch: the RPC error is rethrown, never turned into 0.
GetAllowanceOnError(r, m) ==
  [r EXCEPT !.pc = "done", !.result = Thrown(TransactionCatch(PrefixAllowance \o m))]

AllowanceReadFail(i) ==
  /\ rv[i].pc = "getAllowance"
  /\ rv' = [rv EXCEPT ![i] =
              AfterRevoke(GetAllowanceOnError(Log(rv[i], "allowance:error"), MsgRpc))]
  /\ UNCHANGED <<workload, env, sideVars, allowance, userOps, deployVars>>

\* the address check left out
AddressMatches_Unchecked(derived, supplied) == TRUE

\* the address check that follows toMetaMaskSmartAccount
AddressMatches(derived, supplied) == ToLower(derived) = ToLower(supplied)

\* toMetaMaskSmartAccount resolved: address check, then sendUserOperation is issued.
Derived(i) ==
  /\ rv[i].pc = "derive"
  /\ rv' = [rv EXCEPT ![i] =
              IF AddressMatches(SmartAccountAddress(rv[i].owner), rv[i].sa)
              THEN [rv[i] EXCEPT !.pc = "submit", !.net = @ \o <<"sendUserOperation">>]
              ELSE AfterRevoke([rv[i] EXCEPT !.pc = "done",
                                 !.result = Thrown(TransactionCatch(PaymasterCatch(MsgMismatch)))])]
  /\ UNCHANGED <<workload, env, sideVars, allowance, userOps, deployVars>>

\* the gateway accepts the operation and answers with its hash; the code then
\* issues waitForUserOperationReceipt.
SubmitAccepted(i) ==
  /\ rv[i].pc = "submit"
  /\ Len(userOps) < MaxOps
  /\ userOps' = Append(userOps,
        [token |-> rv[i].token, account |-> ToLower(SmartAccountAddress(rv[i].owner)),
         spender |-> rv[i].spender, state |-> "queued"])
  /\ rv' = [rv EXCEPT ![i] =
              [rv[i] EXCEPT !.pc = "wait", !.userOpHash = <<Len(userOps) + 1>>,
                            !.net = @ \o <<"waitForUserOperationReceipt">>]]
  /\ UNCHANGED <<workload, env, sideVars, allowance, deployVars>>

\* SubmitRejected with the submit tried again on failure
SubmitRejected_Retries(i, m) ==
  /\ rv[i].pc = "submit"
  /\ rv' = [rv EXCEPT ![i] =
              Log(Log(rv[i], "sendUserOperation:error"), "sendUserOperation")]
  /\ UNCHANGED <<workload, env, sideVars, allowance, userOps, deployVars>>

SubmitRejected(i, m) ==
  /\ rv[i].pc = "submit"
  /\ rv' = [rv EXCEPT ![i] =
              AfterRevoke([Log(rv[i], "sendUserOperation:error") EXCEPT
                  !.pc = "done", !.result = Thrown(TransactionCatch(PaymasterCatch(m)))])]
  /\ UNCHANGED <<workload, env, sideVars, allowance, userOps, deployVars>>

\* The network mines a queued operation.  ok: approve(spender, 0) took effect;
\* ~ok: the operation was included but its inner call reverted.
Include(h, ok) ==
  /\ h \in DOMAIN userOps
  /\ userOps[h].state = "queued"
  /\ userOps' = [userOps EXCEPT ![h].state = IF ok THEN "success" ELSE "reverted"]
  /\ allowance' = IF ok
                  THEN [allowance EXCEPT ![<<userOps[h].token, userOps[h].account, userOps[h].spender>>] = 0]
                  ELSE allowance
  /\ UNCHANGED <<workload, env, sideVars, rv, deployVars>>

\* What the code returns once waitForUserOperationReceipt resolved with a receipt.
OnReceipt(r, op) ==
  [r EXCEPT !.pc = "done",
            !.result = Returned("confirmed", TxHashOf(r.userOpHash[1]), r.userOpHash)]

ReceiptArrives(i) ==
  /\ rv[i].pc = "wait"
  /\ userOps[rv[i].userOpHash[1]].state # "queued"
  /\ rv' = [rv EXCEPT ![i] = AfterRevoke(OnReceipt(rv[i], userOps[rv[i].userOpHash[1]]))]
  /\ UNCHANGED <<workload, env, sideVars, allowance, userOps, deployVars>>

\* What the code does when waitForUserOperationReceipt rejects (timeout: 60_000).
OnWaitTimeout(r) ==
  [r EXCEPT !.pc = "done", !.result = Thrown(TransactionCatch(PaymasterCatch(MsgTimeout)))]

\* waitForUserOperationReceipt without a timeout
WaitTimeout_Never(i) == FALSE /\ UNCHANGED vars

WaitTimeout(i) ==
  /\ rv[i].pc = "wait"
  /\ userOps[rv[i].userOpHash[1]].state = "queued"
  /\ rv' = [rv EXCEPT ![i] =
              AfterRevoke(OnWaitTimeout(Log(rv[i], "waitForUserOperationReceipt:timeout")))]
  /\ UNCHANGED <<workload, env, sideVars, allowance, userOps, deployVars>>

\* Any other actor changes the allowance on-chain (the owner approves again,
\* or revokes by other means).
ExternalApprove(t, amt) ==
  /\ workload \in {"revoke", "confirm"}
  /\ allowance[t] # amt
  /\ allowance' = [allowance EXCEPT ![t] = amt]
  /\ UNCHANGED <<workload, env, sideVars, userOps, rv, deployVars>>


(***************************************************************************)
(* Deployment: checkRateLimit, POST /api/smart-account/deploy and          *)
(* SmartAccountService.deploySmartAccount.                                 *)
(***************************************************************************)
RATE_LIMIT_WINDOW_MS == 60000
MAX_DEPLOYMENTS_PER_WINDOW == 3

\* The clock advances in steps of half a window.
TickMs == RATE_LIMIT_WINDOW_MS \div 2

MsgRateLimit == <<"Rate", "limit", "exceeded">>
MsgAlreadyDeployed == <<"Smart", "account", "is", "already", "deployed", "on-chain">>
MsgDeployKey == <<"DEPLOYER_PRIVATE_KEY", "environment", "variable", "is", "required", "to", "deploy">>
MsgDeployMismatch == <<"Smart", "account", "address", "mismatch", "-", "regeneration", "failed">>
MsgSendFailed == <<"insufficient", "funds", "for", "gas">>
MsgReceiptTimeout == <<"Timed", "out", "while", "waiting", "for", "transaction">>
MsgTxFailed == <<"Deployment", "transaction", "failed">>
MsgNotFound == <<"Deployment", "transaction", "succeeded", "but", "contract", "not", "found", "on-chain">>
PrefixDeploy == <<"Failed", "to", "deploy", "smart", "account:">>

Clients == {"c1", "c2"}

NoResponse == [status |-> 0, error |-> <<>>, txHash |-> <<>>]
Response(st, m) == [status |-> st, error |-> m, txHash |-> <<>>]

\* audit: the status of the "smart_account_deployed" record the request wrote
\* with storage.createAuditLog ("none" while it has written none).
IdleReq ==
  [pc |-> "idle", owner |-> "o1", sa |-> "a1", txHash |-> <<>>, net |-> <<>>,
   audit |-> "none", resp |-> NoResponse]

\* The handler returned: what it answered, for which request, and its traffic
\* stay observable.
Finished(d) == [d EXCEPT !.pc = "done", !.txHash = <<>>]

\* the route's catch block: a "failed" audit record, then HTTP 500 with the text
\* deploySmartAccount's own catch block gave the error.
Failed(d, m) ==
  [Finished(d) EXCEPT !.audit = "failed", !.resp = Response(500, PrefixDeploy \o m)]

\* timestamps.filter(ts => now - ts < RATE_LIMIT_WINDOW_MS)
RecentTimestamps(timestamps, t) ==
  SelectSeq(timestamps, LAMBDA ts : t - ts < RATE_LIMIT_WINDOW_MS)

\* checkRateLimit with `>` for `>=`
RateLimitAdmits_OffByOne(owner, t) ==
  Len(RecentTimestamps(deploymentRateLimits[owner], t)) <= MAX_DEPLOYMENTS_PER_WINDOW

\* checkRateLimit's verdict for `owner` at time t
RateLimitAdmits(owner, t) ==
  Len(RecentTimestamps(deploymentRateLimits[owner], t)) < MAX_DEPLOYMENTS_PER_WINDOW

\* RateLimitsAfter with the attempt recorded before the count is looked at
RateLimitsAfter_RecordsRejected(owner, t) ==
  [deploymentRateLimits EXCEPT
     ![owner] = Append(RecentTimestamps(deploymentRateLimits[owner], t), t)]

\* checkRateLimit's effect on the map: only an admitted attempt is recorded.
RateLimitsAfter(owner, t) ==
  IF RateLimitAdmits(owner, t)
  THEN [deploymentRateLimits EXCEPT
          ![owner] = Append(RecentTimestamps(deploymentRateLimits[owner], t), t)]
  ELSE deploymentRateLimits

\* isAccountDeployed: bytecode present; an RPC error is caught and reads as false.
IsAccountDeployed(address, rpcOk) == rpcOk /\ ToLower(address) \in code

\* POST /api/smart-account/deploy arrives with a body that passes validation:
\* the rate limit is checked, then storage.getSmartAccount is awaited.  In the
\* "createDeploy" workload the client sends the address a create request
\* returned for the owner.
StartDeploy(c, ow, sa) ==
  /\ \/ workload = "deploy" /\ c = "c1" /\ sa \in AddrForms
     \/ workload = "deployRace" /\ sa \in AddrForms
     \/ workload = "createDeploy" /\ c = "c1" /\ sa \in created[ow]
  /\ dp[c].pc \in {"idle", "done"}
  /\ deploymentRateLimits' = RateLimitsAfter(ow, now)
  /\ admitted' = IF RateLimitAdmits(ow, now)
                 THEN [admitted EXCEPT ![ow] = Append(@, now)] ELSE admitted
  /\ dp' = [dp EXCEPT ![c] =
              IF RateLimitAdmits(ow, now)
              THEN [IdleReq EXCEPT !.pc = "getStored", !.owner = ow, !.sa = sa]
              ELSE [IdleReq EXCEPT !.pc = "done", !.owner = ow, !.sa = sa,
                                   !.resp = Response(429, MsgRateLimit)]]
  /\ UNCHANGED <<workload, env, sideVars, revokeVars, now, smartAccounts, code, deployTxs>>

\* storage.getSmartAccount(smartAccountAddress.toLowerCase())
StoredAccount(sa) == ToLower(sa) \in smartAccounts

\* storage answered: 409 when a record exists, else deploySmartAccount is called
\* and runs up to its first await, the bytecode read.
StorageLookup(c) ==
  /\ dp[c].pc = "getStored"
  /\ dp' = [dp EXCEPT ![c] =
              IF StoredAccount(dp[c].sa)
              THEN [Finished(dp[c]) EXCEPT !.resp = Response(409, MsgAlreadyDeployed)]
              ELSE [Log(dp[c], "getBytecode") EXCEPT !.pc = "isDeployed"]]
  /\ UNCHANGED <<workload, env, sideVars, revokeVars, now, deploymentRateLimits, admitted,
                 smartAccounts, code, deployTxs>>

\* What deploySmartAccount does with isAccountDeployed's answer, up to the next
\* await: <<>> to go on to toMetaMaskSmartAccount, else the error it throws.
PreDeployError(isAlreadyDeployed) ==
  IF isAlreadyDeployed THEN MsgAlreadyDeployed
  ELSE IF ~env.deployerKey THEN MsgDeployKey
  ELSE <<>>

BytecodeRead(c, rpcOk) ==
  /\ dp[c].pc = "isDeployed"
  /\ LET d == IF rpcOk THEN dp[c] ELSE Log(dp[c], "getBytecode:error")
         e == PreDeployError(IsAccountDeployed(dp[c].sa, rpcOk))
     IN dp' = [dp EXCEPT ![c] = IF e # <<>> THEN Failed(d, e) ELSE [d EXCEPT !.pc = "derive"]]
  /\ UNCHANGED <<workload, env, sideVars, revokeVars, now, deploymentRateLimits, admitted,
                 smartAccounts, code, deployTxs>>

\* the address check that follows toMetaMaskSmartAccount in deploySmartAccount
DeployAddressMatches(derived, supplied) == ToLower(derived) = ToLower(supplied)

\* toMetaMaskSmartAccount resolved: address check, getFactoryArgs (local), then
\* walletClient.sendTransaction is issued.
DeployDerived(c) ==
  /\ dp[c].pc = "derive"
  /\ dp' = [dp EXCEPT ![c] =
              IF DeployAddressMatches(SmartAccountAddress(dp[c].owner), dp[c].sa)
              THEN [Log(dp[c], "sendTransaction") EXCEPT !.pc = "send"]
              ELSE Failed(dp[c], MsgDeployMismatch)]
  /\ UNCHANGED <<workload, env, sideVars, revokeVars, now, deploymentRateLimits, admitted,
                 smartAccounts, code, deployTxs>>

\* the node accepted the transaction; waitForTransactionReceipt is issued.
SendAccepted(c) ==
  /\ dp[c].pc = "send"
  /\ Len(deployTxs) < MaxTxs
  /\ deployTxs' = Append(deployTxs,
        [account |-> ToLower(SmartAccountAddress(dp[c].owner)), state |-> "pending"])
  /\ dp' = [dp EXCEPT ![c] =
              [Log(dp[c], "waitForTransactionReceipt") EXCEPT
                  !.pc = "waitReceipt", !.txHash = <<Len(deployTxs) + 1>>]]
  /\ UNCHANGED <<workload, env, sideVars, revokeVars, now, deploymentRateLimits, admitted,
                 smartAccounts, code>>

\* the node refused the transaction (the deployer key is unfunded, ...)
SendFailed(c) ==
  /\ dp[c].pc = "send"
  /\ dp' = [dp EXCEPT ![c] = Failed(Log(dp[c], "sendTransaction:error"), MsgSendFailed)]
  /\ UNCHANGED <<workload, env, sideVars, revokeVars, now, deploymentRateLimits, admitted,
                 smartAccounts, code, deployTxs>>

\* The chain mines a pending deployment: ok -> the factory call succeeded and the
\* account has bytecode; ~ok -> the factory call reverted.
Mine(h, ok) ==
  /\ h \in DOMAIN deployTxs
  /\ deployTxs[h].state = "pending"
  /\ deployTxs' = [deployTxs EXCEPT ![h].state = IF ok THEN "success" ELSE "reverted"]
  /\ code' = IF ok THEN code \cup {deployTxs[h].account} ELSE code
  /\ UNCHANGED <<workload, env, sideVars, revokeVars, now, deploymentRateLimits, admitted,
                 smartAccounts, dp>>

\* ReceiptRead without `receipt.status !== "success"`
ReceiptRead_NoStatusCheck(c) ==
  /\ dp[c].pc = "waitReceipt"
  /\ deployTxs[dp[c].txHash[1]].state # "pending"
  /\ dp' = [dp EXCEPT ![c] = [Log(dp[c], "getBytecode") EXCEPT !.pc = "verify"]]
  /\ UNCHANGED <<workload, env, sideVars, revokeVars, now, deploymentRateLimits, admitted,
                 smartAccounts, code, deployTxs>>

\* waitForTransactionReceipt resolved: status check, then the bytecode re-read.
ReceiptRead(c) ==
  /\ dp[c].pc = "waitReceipt"
  /\ deployTxs[dp[c].txHash[1]].state # "pending"
  /\ dp' = [dp EXCEPT ![c] =
              IF deployTxs[dp[c].txHash[1]].state = "success"
              THEN [Log(dp[c], "getBytecode") EXCEPT !.pc = "verify"]
              ELSE Failed(dp[c], MsgTxFailed)]
  /\ UNCHANGED <<workload, env, sideVars, revokeVars, now, deploymentRateLimits, admitted,
                 smartAccounts, code, deployTxs>>

\* waitForTransactionReceipt timed out (timeout: 60_000)
ReceiptTimeout(c) ==
  /\ dp[c].pc = "waitReceipt"
  /\ deployTxs[dp[c].txHash[1]].state = "pending"
  /\ dp' = [dp EXCEPT ![c] =
              Failed(Log(dp[c], "waitForTransactionReceipt:timeout"), MsgReceiptTimeout)]
  /\ UNCHANGED <<workload, env, sideVars, revokeVars, now, deploymentRateLimits, admitted,
                 smartAccounts, code, deployTxs>>

\* the second isAccountDeployed answered; on success the route reads the balance.
VerifyDeployed(c, rpcOk) ==
  /\ dp[c].pc = "verify"
  /\ LET d == IF rpcOk THEN dp[c] ELSE Log(dp[c], "getBytecode:error")
     IN dp' = [dp EXCEPT ![c] =
                 IF IsAccountDeployed(dp[c].sa, rpcOk)
                 THEN [Log(d, "getBalance") EXCEPT !.pc = "getBalance"]
                 ELSE Failed(d, MsgNotFound)]
  /\ UNCHANGED <<workload, env, sideVars, revokeVars, now, deploymentRateLimits, admitted,
                 smartAccounts, code, deployTxs>>

\* getBalance answered (its errors read as "0"): the account is stored under the
\* address as supplied, the success record is written, HTTP 200 is sent.
BalanceRead(c) ==
  /\ dp[c].pc = "getBalance"
  /\ smartAccounts' = smartAccounts \cup {dp[c].sa}
  /\ dp' = [dp EXCEPT ![c] =
              [Finished(dp[c]) EXCEPT
                  !.audit = "success",
                  !.resp = [status |-> 200, error |-> <<>>, txHash |-> dp[c].txHash]]]
  /\ UNCHANGED <<workload, env, sideVars, revokeVars, now, deploymentRateLimits, admitted, code, deployTxs>>

Tick ==
  /\ workload \in {"deploy", "create"}
  /\ now < MaxTicks * TickMs
  /\ now' = now + TickMs
  /\ admitted' = [o \in Owners |->
                    SelectSeq(admitted[o], LAMBDA ts : now' - ts < RATE_LIMIT_WINDOW_MS)]
  /\ UNCHANGED <<workload, env, sideVars, revokeVars, deploymentRateLimits, smartAccounts,
                 code, deployTxs, dp>>

(***************************************************************************)
(* The automatic paths: a risk signal (an approval seen by simulate,       *)
(* ingest-tx or the monitor poll) is scored and the handler decides        *)
(* whether to call executeGaslessRevoke.                                   *)
(***************************************************************************)
AutoPaths == {"simulate", "ingest", "monitor"}
Scores == {0, 50, 71, 100}
Thresholds == {0, 50, 70, 100}

\* settings.riskThreshold || 70 : a threshold of 0 is falsy and reads as 70
EffectiveThreshold(t) == IF t = 0 THEN 70 ELSE t

\* Whether the handler of `path` reaches the executeGaslessRevoke call.
\*   g.settings   : user settings exist for the account
\*   g.stored     : storage.getSmartAccount finds the account
\*   g.spender / g.token : the signal carries that address
\* ingest-tx builds the spender from the log topics and never tests it.
RevokeInvoked(path, g) ==
  /\ g.settings /\ g.autoRevokeEnabled
  /\ g.riskScore > EffectiveThreshold(g.riskThreshold)
  /\ (path \in {"simulate", "monitor"} => g.spender)
  /\ (path = "monitor" => g.token)
  /\ g.stored

Signals ==
  [settings : BOOLEAN, autoRevokeEnabled : BOOLEAN, riskScore : Scores,
   riskThreshold : Thresholds, spender : BOOLEAN, token : BOOLEAN, stored : BOOLEAN]

NoSignal ==
  [path |-> "none", signal |-> [settings |-> FALSE, autoRevokeEnabled |-> FALSE,
     riskScore |-> 0, riskThreshold |-> 70, spender |-> FALSE, token |-> FALSE,
     stored |-> FALSE], invoked |-> FALSE]

\* A handler of an automatic path processes one signal.  ingest-tx takes token
\* and spender from the log itself, so its signals always carry both.
Signal(path, g) ==
  /\ workload = "signal"
  /\ path = "ingest" => (g.spender /\ g.token)
  /\ sig' = [path |-> path, signal |-> g, invoked |-> RevokeInvoked(path, g)]
  /\ UNCHANGED <<workload, env, confirmVars, createVars, monitorVars, wsVars, revokeVars, deployVars>>

(***************************************************************************)
(* POST /api/events/revoke-confirm: the user revoked with his own wallet   *)
(* and the client reports the transaction hash; the server verifies it.    *)
(***************************************************************************)
EventTriple == <<"t1", "a1", "s1">>

\* event  : the risk event's status in storage; event0 : its status when the
\* request arrived; audits : the "revoke_approval" records the request wrote;
\* http, body : the response's status code and the `success` and `status`
\* members of its JSON body (an error body has neither: NoBody)
NoBody == [success |-> FALSE, status |-> "none"]

IdleConfirm ==
  [pc |-> "idle", event |-> "detected", event0 |-> "detected", txStatus |-> "none",
   currentAllowance |-> <<>>, net |-> <<>>, audits |-> <<>>, http |-> 0, body |-> NoBody]

\* the request arrives for an existing event that has token and spender; the
\* handler awaits getTransactionStatus(txHash)
ConfirmStart ==
  /\ workload = "confirm"
  /\ cf.pc \in {"idle", "done"}
  /\ cf' = [IdleConfirm EXCEPT !.pc = "getTransactionStatus", !.event = cf.event,
                               !.event0 = cf.event, !.net = <<"getTransactionReceipt">>]
  /\ UNCHANGED <<workload, env, sig, clientTx, createVars, monitorVars, wsVars, revokeVars,
                 deployVars>>

\* getTransactionStatus with any receipt read as confirmed
GetTransactionStatus_AnyReceipt(tx, rpcOk) ==
  IF ~rpcOk \/ tx = "unmined" THEN "not_found" ELSE "confirmed"

\* getTransactionStatus with a missing receipt read as failed
GetTransactionStatus_MissingIsFailed(tx, rpcOk) ==
  IF ~rpcOk \/ tx = "unmined" THEN "failed"
  ELSE IF tx = "success" THEN "confirmed" ELSE "failed"

\* TransactionService.getTransactionStatus: the receipt's status, "not_found"
\* when getTransactionReceipt throws (no receipt yet, or an RPC error)
GetTransactionStatus(tx, rpcOk) ==
  IF ~rpcOk \/ tx = "unmined" THEN "not_found"
  ELSE IF tx = "success" THEN "confirmed" ELSE "failed"

ConfirmTxStatus(rpcOk) ==
  /\ cf.pc = "getTransactionStatus"
  /\ LET st == GetTransactionStatus(clientTx, rpcOk)
         c  == [cf EXCEPT !.txStatus = st]
     IN cf' = IF st \in {"not_found", "pending"}
              THEN [c EXCEPT !.pc = "done", !.audits = <<"pending">>, !.http = 200,
                             !.body = [success |-> FALSE, status |-> "pending"]]
              ELSE IF st = "failed"
              THEN [c EXCEPT !.pc = "done", !.audits = <<"failed">>, !.http = 400]
              ELSE [c EXCEPT !.pc = "getAllowance", !.net = @ \o <<"allowance">>]
  /\ UNCHANGED <<workload, env, sig, clientTx, createVars, monitorVars, wsVars, revokeVars,
                 deployVars>>

\* the allowance read answered
ConfirmAllowanceOk ==
  /\ cf.pc = "getAllowance"
  /\ LET a == ReadAllowance(EventTriple[1], EventTriple[2], EventTriple[3])
         c == [cf EXCEPT !.pc = "done", !.currentAllowance = <<a>>]
     IN cf' = IF a # 0
              THEN [c EXCEPT !.audits = <<"failed">>, !.http = 400]
              ELSE [c EXCEPT !.event = "revoked", !.audits = <<"success">>, !.http = 200,
                             !.body = [success |-> TRUE, status |-> "confirmed"]]
  /\ UNCHANGED <<workload, env, sig, clientTx, createVars, monitorVars, wsVars, revokeVars,
                 deployVars>>

\* the allowance read failed: getAllowance throws, the inner catch answers 500
ConfirmAllowanceFail ==
  /\ cf.pc = "getAllowance"
  /\ cf' = [cf EXCEPT !.pc = "done", !.net = @ \o <<"allowance:error">>,
                      !.audits = <<"failed">>, !.http = 500]
  /\ UNCHANGED <<workload, env, sig, clientTx, createVars, monitorVars, wsVars, revokeVars,
                 deployVars>>

\* The chain mines the user's transaction.  A successful one sets the event's
\* allowance to zero when it is the revocation (revokes), and leaves it alone
\* when it is some other transaction.
MineClientTx(ok, revokes) ==
  /\ workload = "confirm"
  /\ clientTx = "unmined"
  /\ clientTx' = IF ok THEN "success" ELSE "reverted"
  /\ allowance' = IF ok /\ revokes THEN [allowance EXCEPT ![EventTriple] = 0] ELSE allowance
  /\ UNCHANGED <<workload, env, sig, cf, createVars, monitorVars, wsVars, userOps, rv, deployVars>>

(***************************************************************************)
(* POST /api/smart-account/create and SmartAccountService.createSmartAccount *)
(***************************************************************************)
\* createSmartAccount as it was with `deploySalt: Date.now()`
ComputedAddress_SaltFromClock(ownerAddress, t) ==
  CASE ownerAddress = "o1" /\ t = 0 -> "K1"
    [] ownerAddress = "o1" -> "K1t"
    [] ownerAddress = "o2" /\ t = 0 -> "K2"
    [] OTHER -> "K2t"

\* computedAddress of a call made at time t:
\* getAddress("0x" + keccak256(encodePacked(owner, keccak256(owner))).slice(26)),
\* in which neither the clock nor the chain takes part.
ComputedAddress(ownerAddress, t) ==
  CASE ownerAddress = "o1" -> "K1"
    [] ownerAddress = "o2" -> "K2"

\* the addresses createSmartAccount can return
CreatedForms == {ComputedAddress(o, 0) : o \in Owners}

\* repeat : an address had been returned for this owner before this call
NoCreate ==
  [owner |-> "o1", address |-> <<>>, isDeployed |-> FALSE, at |-> 0,
   repeat |-> FALSE, http |-> 0]

\* One create request.  isAccountDeployed swallows an RPC error; getBalance does
\* not, so with the RPC down createSmartAccount throws and the route answers 500
\* without storing anything.
CreateAccount(ow, rpcOk) ==
  /\ workload \in {"create", "createDeploy"}
  /\ LET a == ComputedAddress(ow, now)
     IN IF rpcOk
        THEN /\ cr' = [owner |-> ow, address |-> <<a>>, isDeployed |-> IsAccountDeployed(a, rpcOk),
                       at |-> now, repeat |-> created[ow] # {}, http |-> 200]
             /\ created' = [created EXCEPT ![ow] = @ \cup {a}]
             /\ smartAccounts' = smartAccounts \cup {a}
        ELSE /\ cr' = [NoCreate EXCEPT !.owner = ow, !.at = now, !.repeat = created[ow] # {},
                                       !.http = 500]
             /\ UNCHANGED <<created, smartAccounts>>
  /\ UNCHANGED <<workload, env, sigVars, confirmVars, monitorVars, wsVars, revokeVars, now,
                 deploymentRateLimits,
                 admitted, code, deployTxs, dp>>

\* the process restarts: the in-memory storage and the rate-limit map start empty
Restart ==
  /\ workload = "create"
  /\ smartAccounts # {}
  /\ smartAccounts' = {}
  /\ deploymentRateLimits' = [o \in Owners |-> <<>>]
  /\ UNCHANGED <<workload, env, sideVars, revokeVars, now, admitted, code, deployTxs, dp>>

\* someone deploys a contract at address a
ChainDeploys(a) ==
  /\ workload = "create"
  /\ a \notin code
  /\ code' = code \cup {a}
  /\ UNCHANGED <<workload, env, sideVars, revokeVars, now, deploymentRateLimits, admitted,
                 smartAccounts, deployTxs, dp>>

(***************************************************************************)
(* monitor-service.ts: startMonitoringAddress, its poll (`tick`) and        *)
(* stopMonitoringAddress, for one monitored account.                        *)
(***************************************************************************)
MaxTimers == 2
MaxRecords == 2

Callers == {"m1", "m2"}

\* The approval transactions the indexer may report for the account: x1 meets
\* the auto-revoke condition of processApproval, x2 does not.
TxHashes == {"x1", "x2"}
AutoRevokes(x) == x = "x1"

\* the value of a parameter the caller left out, or of a field never stored
Undefined == "undefined"

IdleStart == [pc |-> "idle", addr |-> "a1"]
NoCount == [events |-> 0, revokes |-> 0]

\* The stored risk events of the account.  createRiskEvent copies a fixed
\* list of fields, logIndex not among them.
StoredEvents ==
  {[txHash |-> x, logIndex |-> Undefined] : x \in {y \in TxHashes : riskEvents[y].events > 0}}

\* MemStorage.eventExists
EventExists(accountAddress, txHash, logIndex) ==
  IF txHash = "" \/ logIndex = Undefined THEN FALSE
  ELSE \E e \in StoredEvents : e.txHash = txHash /\ e.logIndex = logIndex

\* processApproval for every event of the indexer's answer: storage is asked
\* eventExists(addr, transactionHash), with no third argument; an event not
\* found there is stored, and revoked when it meets the condition.
ProcessApprovals(approvals) ==
  [x \in TxHashes |->
     IF x \in approvals /\ ~EventExists("a1", x, Undefined)
     THEN [events |-> riskEvents[x].events + 1,
           revokes |-> riskEvents[x].revokes + (IF AutoRevokes(x) THEN 1 ELSE 0)]
     ELSE riskEvents[x]]

\* getRecentApprovals: the recent logs, [] when the query fails
RecentApprovals(ok) == IF ok THEN observed ELSE {}

\* the stored events stay countable
CanRecord(approvals) == \A x \in approvals : riskEvents[x].events < MaxRecords

ActiveTimers(addr) ==
  {h \in DOMAIN timers : timers[h].addr = addr /\ timers[h].state = "active"}

\* startMonitoringAddress is called: the lower-cased address is looked up in
\* `intervals`; when absent, the first poll is started and awaited.
StartMonitoringAddress(m, address) ==
  /\ workload = "monitor"
  /\ mon[m].pc \in {"idle", "done"}
  /\ mon' = [mon EXCEPT ![m] =
               [pc |-> IF intervals[ToLower(address)] # <<>> THEN "done" ELSE "tick",
                addr |-> ToLower(address)]]
  /\ stopped' = FALSE
  /\ UNCHANGED <<workload, env, sigVars, confirmVars, createVars, wsVars, revokeVars,
                 deployVars, intervals, timers, observed, riskEvents>>

\* the first poll finished: setInterval(tick, 10000), intervals.set(addr, handle)
FirstTickDone(m, ok) ==
  /\ mon[m].pc = "tick"
  /\ Len(timers) < MaxTimers
  /\ CanRecord(RecentApprovals(ok))
  /\ riskEvents' = ProcessApprovals(RecentApprovals(ok))
  /\ timers' = Append(timers, [addr |-> mon[m].addr, state |-> "active"])
  /\ intervals' = [intervals EXCEPT ![mon[m].addr] = <<Len(timers) + 1>>]
  /\ mon' = [mon EXCEPT ![m].pc = "done"]
  /\ UNCHANGED <<workload, env, sigVars, confirmVars, createVars, wsVars, revokeVars,
                 deployVars, stopped, observed>>

\* an active timer fires and its poll runs
TimerFires(h, ok) ==
  /\ h \in DOMAIN timers
  /\ timers[h].state = "active"
  /\ CanRecord(RecentApprovals(ok))
  /\ riskEvents' = ProcessApprovals(RecentApprovals(ok))
  /\ UNCHANGED <<workload, env, sigVars, confirmVars, createVars, wsVars, revokeVars,
                 deployVars, intervals, timers, mon, stopped, observed>>

\* stopMonitoringAddress: the registered handle, if any, is cleared and deleted
StopMonitoringAddress(address) ==
  /\ workload = "monitor"
  /\ LET h == intervals[ToLower(address)]
     IN /\ timers' = IF h # <<>> THEN [timers EXCEPT ![h[1]].state = "cleared"] ELSE timers
        /\ intervals' = [intervals EXCEPT ![ToLower(address)] = <<>>]
  /\ stopped' = \A m \in Callers : mon[m].pc # "tick"
  /\ UNCHANGED <<workload, env, sigVars, confirmVars, createVars, wsVars, revokeVars,
                 deployVars, mon, observed, riskEvents>>

\* an approval of the account is mined and the indexer reports it from now on
Observe(x) ==
  /\ workload = "monitor"
  /\ x \notin observed
  /\ observed' = observed \cup {x}
  /\ UNCHANGED <<workload, env, sigVars, confirmVars, createVars, wsVars, revokeVars,
                 deployVars, intervals, timers, mon, stopped, riskEvents>>

(***************************************************************************)
(* routes.ts: the WebSocket server's connection handler and the broadcast  *)
(* the request handlers make after storing or updating an event.           *)
(***************************************************************************)
Sockets == {"w1", "w2"}

\* "none"    : not connected yet
\* "open"    : readyState OPEN
\* "closing" : readyState CLOSING or CLOSED, the "close" event not yet emitted
\* "closed"  : the "close" handler has run
NoBroadcast == [account |-> "none", to |-> {}]

\* wss.on("connection")
Connect(w) ==
  /\ workload = "ws"
  /\ sockets[w] = "none"
  /\ sockets' = [sockets EXCEPT ![w] = "open"]
  /\ UNCHANGED <<workload, env, sigVars, confirmVars, createVars, monitorVars, revokeVars,
                 deployVars, wsClients, subscribed, sent>>

\* ws.on("message") with {type: "subscribe", accountAddress}: the socket joins
\* the set kept under the address as sent.  A message can still be delivered
\* while the connection is closing, never after "close".
Subscribe(w, accountAddress) ==
  /\ sockets[w] \in {"open", "closing"}
  /\ wsClients' = [wsClients EXCEPT ![accountAddress] = @ \cup {w}]
  /\ subscribed' = subscribed \cup {<<w, accountAddress>>}
  /\ UNCHANGED <<workload, env, sigVars, confirmVars, createVars, monitorVars, revokeVars,
                 deployVars, sockets, sent>>

\* the connection goes down: readyState is no longer OPEN
Disconnect(w) ==
  /\ sockets[w] = "open"
  /\ sockets' = [sockets EXCEPT ![w] = "closing"]
  /\ UNCHANGED <<workload, env, sigVars, confirmVars, createVars, monitorVars, revokeVars,
                 deployVars, wsClients, subscribed, sent>>

\* CloseEvent with the subscriptions left as they are
CloseEvent_KeepsSubscriptions(w) ==
  /\ sockets[w] = "closing"
  /\ sockets' = [sockets EXCEPT ![w] = "closed"]
  /\ UNCHANGED <<workload, env, sigVars, confirmVars, createVars, monitorVars, revokeVars,
                 deployVars, wsClients, subscribed, sent>>

\* ws.on("close"): the socket is deleted from every set
CloseEvent(w) ==
  /\ sockets[w] = "closing"
  /\ sockets' = [sockets EXCEPT ![w] = "closed"]
  /\ wsClients' = [a \in DOMAIN wsClients |-> wsClients[a] \ {w}]
  /\ UNCHANGED <<workload, env, sigVars, confirmVars, createVars, monitorVars, revokeVars,
                 deployVars, subscribed, sent>>

\* a handler broadcasts for an account: wsClients.get(accountAddress), then
\* client.send for every member whose readyState is OPEN
Broadcast(accountAddress) ==
  /\ workload = "ws"
  /\ sent' = [account |-> accountAddress,
              to |-> {w \in wsClients[accountAddress] : sockets[w] = "open"}]
  /\ UNCHANGED <<workload, env, sigVars, confirmVars, createVars, monitorVars, revokeVars,
                 deployVars, sockets, wsClients, subscribed>>

(***************************************************************************)
(* The revoke pipeline and the deployment pipeline share no mutable state  *)
(* (the first reads and writes allowances, the second bytecode), so a      *)
(* behaviour exercises one of them: `workload` says which.                 *)
(*   "revoke"     : overlapping executeGaslessRevoke invocations           *)
(*   "deploy"     : deploy requests one after the other, the clock running *)
(*   "deployRace" : overlapping deploy requests within one clock instant   *)
(*   "signal"     : risk signals handled by the automatic paths            *)
(*   "confirm"    : revoke-confirm requests for one risk event             *)
(*   "create"     : create requests, across restarts and chain changes     *)
(*   "createDeploy" : create requests, and deploy requests for the         *)
(*                  addresses they returned                                *)
(*   "monitor"    : start and stop calls of the monitor, and its polls     *)
(*   "ws"         : WebSocket connections, subscriptions and broadcasts    *)
(***************************************************************************)
Workloads ==
  {"revoke", "deploy", "deployRace", "signal", "confirm", "create", "createDeploy",
   "monitor", "ws"}

Init ==
  /\ workload \in Workloads
  /\ env \in IF workload = "revoke" THEN Envs
             ELSE IF workload \in {"deploy", "deployRace"}
             THEN {Env(TRUE, TRUE, FALSE, TRUE), Env(TRUE, FALSE, FALSE, TRUE)}
             ELSE {Env(TRUE, TRUE, FALSE, TRUE)}
  /\ allowance \in IF workload \in {"revoke", "confirm"}
                   THEN [Triples -> Amounts] ELSE {[t \in Triples |-> 0]}
  /\ userOps = <<>>
  /\ rv = [i \in Invs |-> IdleInv]
  /\ now = 0
  /\ deploymentRateLimits = [o \in Owners |-> <<>>]
  /\ admitted = [o \in Owners |-> <<>>]
  /\ smartAccounts = {}
  /\ code \in IF workload \in {"deploy", "deployRace"} THEN SUBSET Accounts ELSE {{}}
  /\ deployTxs = <<>>
  /\ dp = [c \in Clients |-> IdleReq]
  /\ sig = NoSignal
  /\ clientTx = "unmined"
  /\ cf \in IF workload = "confirm"
            THEN {[IdleConfirm EXCEPT !.event = e, !.event0 = e] : e \in {"detected", "ignored"}}
            ELSE {IdleConfirm}
  /\ cr = NoCreate
  /\ created = [o \in Owners |-> {}]
  /\ intervals = [a \in Accounts |-> <<>>]
  /\ timers = <<>>
  /\ mon = [m \in Callers |-> IdleStart]
  /\ stopped = FALSE
  /\ observed = {}
  /\ riskEvents = [x \in TxHashes |-> NoCount]
  /\ sockets = [w \in Sockets |-> "none"]
  /\ wsClients = [a \in AddrForms |-> {}]
  /\ subscribed = {}
  /\ sent = NoBroadcast

\* the steps of started invocations and of their environment
RevokeSteps ==
  \/ \E i \in Invs : AllowanceReadOk(i)
  \/ \E i \in Invs : AllowanceReadFail(i)
  \/ \E i \in Invs : Derived(i)
  \/ \E i \in Invs : SubmitAccepted(i)
  \/ \E i \in Invs, m \in GatewayErrors : SubmitRejected(i, m)
  \/ \E h \in 1..MaxOps, ok \in BOOLEAN : Include(h, ok)
  \/ \E i \in Invs : ReceiptArrives(i)
  \/ \E i \in Invs : WaitTimeout(i)
  \/ \E t \in Triples, amt \in Amounts : ExternalApprove(t, amt)

RevokeNext ==
  \/ \E i \in Invs, tk \in Tokens, sp \in Spenders, ow \in Owners, sa \in AddrForms :
        Call(i, tk, sp, ow, sa)
  \/ RevokeSteps

Next ==
  \/ RevokeNext
  \/ \E c \in Clients, ow \in Owners, sa \in AddrForms \cup CreatedForms : StartDeploy(c, ow, sa)
  \/ \E c \in Clients : StorageLookup(c)
  \/ \E c \in Clients, rpcOk \in BOOLEAN : BytecodeRead(c, rpcOk)
  \/ \E c \in Clients : DeployDerived(c)
  \/ \E c \in Clients : SendAccepted(c)
  \/ \E c \in Clients : SendFailed(c)
  \/ \E h \in 1..MaxTxs, ok \in BOOLEAN : Mine(h, ok)
  \/ \E c \in Clients : ReceiptRead(c)
  \/ \E c \in Clients : ReceiptTimeout(c)
  \/ \E c \in Clients, rpcOk \in BOOLEAN : VerifyDeployed(c, rpcOk)
  \/ \E c \in Clients : BalanceRead(c)
  \/ Tick
  \/ workload = "signal" /\ \E path \in AutoPaths, g \in Signals : Signal(path, g)
  \/ ConfirmStart
  \/ \E rpcOk \in BOOLEAN : ConfirmTxStatus(rpcOk)
  \/ ConfirmAllowanceOk
  \/ ConfirmAllowanceFail
  \/ \E ok \in BOOLEAN, revokes \in BOOLEAN : MineClientTx(ok, revokes)
  \/ \E ow \in Owners, rpcOk \in BOOLEAN : CreateAccount(ow, rpcOk)
  \/ Restart
  \/ \E a \in {"k1", "k2"} : ChainDeploys(a)
  \/ \E m \in Callers, address \in AddrForms : StartMonitoringAddress(m, address)
  \/ \E m \in Callers, ok \in BOOLEAN : FirstTickDone(m, ok)
  \/ \E h \in 1..MaxTimers, ok \in BOOLEAN : TimerFires(h, ok)
  \/ \E address \in AddrForms : StopMonitoringAddress(address)
  \/ \E x \in TxHashes : Observe(x)
  \/ \E w \in Sockets : Connect(w)
  \/ \E w \in Sockets, a \in AddrForms : Subscribe(w, a)
  \/ \E w \in Sockets : Disconnect(w)
  \/ \E w \in Sockets : CloseEvent(w)
  \/ \E a \in AddrForms : Broadcast(a)

Spec == Init /\ [][Next]_vars

(***************************************************************************)
(* The revoke pipeline under the scheduling its awaits rely on: every      *)
(* chain or gateway call that was issued is answered or fails, and the     *)
(* inclusion wait ends with a receipt or with its timeout.  Nothing is     *)
(* assumed about the network including an operation, nor about callers.    *)
(* Callers pass the account address in lower case here; o1 owns it, o2     *)
(* does not (the mismatch branch).                                         *)
(***************************************************************************)
RevokeInit == Init /\ workload = "revoke"

RevokeLiveNext ==
  \/ \E i \in Invs, tk \in Tokens, sp \in Spenders, ow \in Owners : Call(i, tk, sp, ow, "a1")
  \/ RevokeSteps

RevokeFairness ==
  \A i \in Invs :
    /\ WF_vars(AllowanceReadOk(i) \/ AllowanceReadFail(i))
    /\ WF_vars(Derived(i))
    /\ WF_vars(SubmitAccepted(i) \/ \E m \in GatewayErrors : SubmitRejected(i, m))
    /\ WF_vars(ReceiptArrives(i) \/ WaitTimeout(i))

RevokeLive == RevokeInit /\ [][RevokeLiveNext]_vars /\ RevokeFairness


(***************************************************************************)
(* Properties                                                              *)
(***************************************************************************)
Confirmed(r) == r.pc = "done" /\ r.result.kind = "return" /\ r.result.status = "confirmed"
Threw(r, m) == r.pc = "done" /\ r.result.kind = "throw" /\ r.result.msg = m
Mismatch(ow, sa) == ToLower(SmartAccountAddress(ow)) # ToLower(sa)

\* C1: an invocation that started from a non-zero allowance and whose
\* UserOperation was included returns status "confirmed" only if the allowance,
\* read afresh at that moment, is exactly zero.
C1_NoFalseSuccess ==
  [][\A i \in Invs :
       (rv[i].pc = "wait" /\ Confirmed(rv'[i]))
         => allowance'[<<rv[i].token, ToLower(rv[i].sa), rv[i].spender>>] = 0]_vars

\* C2: an invocation returns status "confirmed" for a submitted UserOperation
\* only if the operation's receipt reports success.
C2_ConfirmedOnlyOnSuccessReceipt ==
  \A i \in Invs :
    (Confirmed(rv[i]) /\ rv[i].userOpHash # <<>>)
      => userOps[rv[i].userOpHash[1]].state = "success"

\* C3: when the allowance read fails, the invocation ends by raising the read
\* error: it returns no result and has issued no sendUserOperation.
C3_NoFalseZero ==
  \A i \in Invs :
    Issued(rv[i], "allowance:error")
      => /\ Threw(rv[i], PrefixRevoke \o PrefixAllowance \o MsgRpc)
         /\ rv[i].currentAllowance = <<>>
         /\ ~Issued(rv[i], "sendUserOperation")

C3_Witness == \E i \in Invs : Issued(rv[i], "allowance:error") /\ rv[i].pc = "done"

\* C4: whenever the allowance read at entry is zero, the invocation returns
\* "confirmed" with the all-zero hash and has issued no sendUserOperation; this
\* holds for every invocation, however many were made before it.
C4_ZeroShortCircuit ==
  \A i \in Invs :
    rv[i].currentAllowance = <<0>>
      => /\ rv[i].pc = "done"
         /\ rv[i].result = Returned("confirmed", ZeroHash, <<>>)
         /\ rv[i].net = <<"allowance">>

\* both callers have returned through the short-circuit, after an earlier
\* invocation had submitted an operation
C4_Witness ==
  /\ \A i \in Invs : rv[i].currentAllowance = <<0>> /\ rv[i].pc = "done"
  /\ userOps # <<>>

\* C5: with a supplied address that differs from the re-derived one, no
\* sendUserOperation and no sendTransaction is ever issued, and an attempt that
\* gets as far as the re-derivation ends with the address-mismatch error.
C5_MismatchAborts ==
  /\ \A i \in Invs :
       (rv[i].pc # "idle" /\ Mismatch(rv[i].owner, rv[i].sa))
         => /\ ~Issued(rv[i], "sendUserOperation")
            /\ rv[i].pc \notin {"submit", "wait"}
            /\ (rv[i].pc = "done" /\ rv[i].currentAllowance \notin {<<>>, <<0>>}
                  /\ ConfigError(env) = <<>>)
                 => Threw(rv[i], PrefixRevoke \o PrefixRevoke \o MsgMismatch)
  /\ \A c \in Clients :
       (dp[c].pc # "idle" /\ Mismatch(dp[c].owner, dp[c].sa))
         => /\ ~Issued(dp[c], "sendTransaction")
            /\ dp[c].pc \notin {"send", "waitReceipt", "verify", "getBalance"}
            /\ dp[c].pc = "done"
                 => \/ dp[c].resp.status \in {429, 409}
                    \/ /\ dp[c].resp.status = 500
                       /\ dp[c].resp.error \in
                            { PrefixDeploy \o MsgAlreadyDeployed, PrefixDeploy \o MsgDeployKey,
                              PrefixDeploy \o MsgDeployMismatch }

C5_Witness ==
  \/ \E i \in Invs : Mismatch(rv[i].owner, rv[i].sa)
                       /\ Threw(rv[i], PrefixRevoke \o PrefixRevoke \o MsgMismatch)
  \/ \E c \in Clients : Mismatch(dp[c].owner, dp[c].sa) /\ dp[c].pc = "done"
                          /\ dp[c].resp.error = PrefixDeploy \o MsgDeployMismatch

\* C6: when the wait for inclusion times out, the invocation returns a result
\* with status "pending" that carries the operation hash.
C6_TimeoutIsPending ==
  \A i \in Invs :
    Issued(rv[i], "waitForUserOperationReceipt:timeout")
      => /\ rv[i].result.kind = "return"
         /\ rv[i].result.status = "pending"
         /\ rv[i].result.userOpHash = rv[i].userOpHash

\* C7: with the signing key or the bundler/paymaster configuration missing, a
\* revoke attempt and a deployment attempt make no network call and return no
\* success.
C7_ConfigErrorBeforeNetwork ==
  /\ ConfigError(env) # <<>>
       => \A i \in Invs : rv[i].net = <<>> /\ rv[i].result.kind # "return"
  /\ ~env.deployerKey
       => \A c \in Clients : dp[c].net = <<>> /\ dp[c].resp.status # 200

\* C8: at most one UserOperation is in flight for a (smart account, token,
\* spender) triple at any time.
C8_OneInFlightPerTriple ==
  \A i, j \in Invs :
    (i # j /\ rv[i].pc \in {"submit", "wait"} /\ rv[j].pc \in {"submit", "wait"})
      => <<rv[i].token, ToLower(rv[i].sa), rv[i].spender>>
           # <<rv[j].token, ToLower(rv[j].sa), rv[j].spender>>

\* how many of the time stamps lie within the window that ends at time t
InWindow(stamps, t) ==
  Cardinality({k \in DOMAIN stamps : t - stamps[k] < RATE_LIMIT_WINDOW_MS})

\* C9: per owner at most MAX_DEPLOYMENTS_PER_WINDOW attempts are admitted within
\* a window; an attempt is rejected (429) exactly when its own owner already has
\* that many admitted in the window, whatever other owners did, and a rejected
\* attempt does no deployment work.
C9_RateLimit ==
  [][\A c \in Clients :
       (dp[c].pc \in {"idle", "done"} /\ dp'[c] # dp[c])
         => /\ (dp'[c].resp.status = 429)
                 <=> (InWindow(admitted[dp'[c].owner], now) >= MAX_DEPLOYMENTS_PER_WINDOW)
            /\ InWindow(admitted'[dp'[c].owner], now') <= MAX_DEPLOYMENTS_PER_WINDOW
            /\ (dp'[c].resp.status = 429)
                 => /\ dp'[c].pc = "done" /\ dp'[c].net = <<>> /\ dp'[c].audit = "none"
                    /\ UNCHANGED <<deploymentRateLimits, smartAccounts, code, deployTxs>>
            /\ (dp'[c].resp.status # 429) => dp'[c].pc = "getStored"]_vars

\* an owner is rejected, at a time when earlier attempts of his have expired,
\* while another owner still has attempts left
C9_Witness ==
  \E c \in Clients :
    /\ dp[c].resp.status = 429
    /\ now >= RATE_LIMIT_WINDOW_MS
    /\ InWindow(admitted[dp[c].owner], now) = MAX_DEPLOYMENTS_PER_WINDOW
    /\ \E o \in Owners : InWindow(admitted[o], now) \in {1, 2}

\* C10: when the bytecode check of an attempt completes while the address has
\* bytecode, the attempt fails at that check: it goes no further towards
\* deriving the account and sending a deployment transaction.
C10_AlreadyDeployedRejected ==
  [][\A c \in Clients :
       (dp[c].pc = "isDeployed" /\ ToLower(dp[c].sa) \in code /\ dp'[c] # dp[c])
         => /\ dp'[c].pc = "done"
            /\ dp'[c].resp.status = 500]_vars


\* deploySmartAccount has returned its success result to the route
DeploySucceeded(d) == d.pc = "getBalance" \/ d.resp.status = 200
DeployedTx(d) == IF d.pc = "getBalance" THEN d.txHash[1] ELSE d.resp.txHash[1]

\* C11: deploySmartAccount returns success only if its transaction's receipt has
\* status success and a bytecode read issued after the receipt found code at the
\* account; an attempt that waited for a receipt and did not succeed ends as a
\* failed deployment (HTTP 500, "failed" record).
C11_DeployVerified ==
  \A c \in Clients :
    /\ DeploySucceeded(dp[c])
         => /\ deployTxs[DeployedTx(dp[c])].state = "success"
            /\ ToLower(dp[c].sa) \in code
            /\ \E k \in DOMAIN dp[c].net :
                 /\ dp[c].net[k] = "waitForTransactionReceipt"
                 /\ k + 2 \in DOMAIN dp[c].net
                 /\ dp[c].net[k + 1] = "getBytecode"
                 /\ dp[c].net[k + 2] = "getBalance"
    /\ (dp[c].pc = "done" /\ Issued(dp[c], "waitForTransactionReceipt")
          /\ dp[c].resp.status # 200)
         => /\ dp[c].resp.status = 500
            /\ dp[c].audit = "failed"
            /\ dp[c].resp.error \in
                 {PrefixDeploy \o m : m \in {MsgReceiptTimeout, MsgTxFailed, MsgNotFound}}

\* one request answered 200 and another failed after its transaction reverted
C11_Witness ==
  /\ \E c \in Clients : dp[c].resp.status = 200
  /\ \E c \in Clients : dp[c].resp.error = PrefixDeploy \o MsgTxFailed


\* C12: an attempt is rejected as "already deployed" only on the strength of a
\* bytecode read it made itself, with bytecode present at the address.
C12_DeployedFromChain ==
  \A c \in Clients :
    (dp[c].pc = "done"
       /\ dp[c].resp.error \in {MsgAlreadyDeployed, PrefixDeploy \o MsgAlreadyDeployed})
      => /\ Issued(dp[c], "getBytecode")
         /\ ToLower(dp[c].sa) \in code


\* C13: on every automatic path executeGaslessRevoke is called for a signal
\* exactly when its risk score exceeds the configured threshold, automatic
\* revocation is enabled and the signal has a spender address.
C13_TriggerCondition ==
  sig.path \in AutoPaths
    => (sig.invoked <=> /\ sig.signal.riskScore > sig.signal.riskThreshold
                        /\ sig.signal.settings /\ sig.signal.autoRevokeEnabled
                        /\ sig.signal.spender)


\* what an invocation was given and what the chain and the gateway answered
Inputs(r) == <<r.token, r.spender, r.owner, r.sa>>
Responses(r) ==
  <<r.currentAllowance,
    SelectSeq(r.net, LAMBDA e : e \in {"allowance:error", "sendUserOperation:error",
                                       "waitForUserOperationReceipt:timeout"})>>

C15_OneAuditRecord ==
  \A i \in Invs :
    rv[i].pc = "done"
      => /\ Len(rv[i].audits) = 1
         /\ rv[i].audits[1] \in {"success", "failed", "pending"}


\* C16: on the confirmation path the event is "revoked" and a success record is
\* written only when the reported transaction was read as mined with success
\* and the allowance read that followed returned zero; a request that did not
\* get that far leaves the event's status as it found it.
C16_ConfirmVerified ==
  LET verified == /\ cf.txStatus = "confirmed" /\ clientTx = "success"
                  /\ cf.currentAllowance = <<0>>
                  /\ cf.net = <<"getTransactionReceipt", "allowance">>
  IN /\ cf.audits = <<"success">> => verified
     /\ (cf.event # cf.event0) => (verified /\ cf.event = "revoked" /\ cf.pc = "done")
     /\ (cf.pc = "done" /\ ~verified)
          => (cf.event = cf.event0 /\ cf.audits \in {<<"pending">>, <<"failed">>})

\* a verified confirmation has marked a detected event as revoked
C16_Witness ==
  cf.pc = "done" /\ cf.event = "revoked" /\ cf.event0 = "detected" /\ cf.audits = <<"success">>


C18_Terminates ==
  \A i \in Invs : (rv[i].pc \notin {"idle", "done"}) ~> (rv[i].pc = "done")

\* an invocation whose operation was never included has settled by the timeout
C18_Witness ==
  \E i \in Invs :
    /\ rv[i].pc = "done" /\ Issued(rv[i], "waitForUserOperationReceipt:timeout")
    /\ userOps[rv[i].userOpHash[1]].state = "queued"


IsPrefix(a, b) == Len(a) <= Len(b) /\ SubSeq(b, 1, Len(a)) = a
Count(q, e) == Cardinality({k \in DOMAIN q : q[k] = e})

\* C19: an invocation goes through its steps in order and only forward: the
\* allowance read first; building only after a non-zero allowance was read;
\* the submit only after the built account passed the address check; the
\* inclusion wait only after the submit returned a hash; a confirmed result
\* only after the operation was included.
C19_StepOrder ==
  [][\A i \in Invs :
       rv'[i] # rv[i] =>
         LET r == rv[i]  q == rv'[i]
         IN \/ r.pc \in {"idle", "done"} /\ q.pc = "getAllowance" /\ q.net = <<"allowance">>
            \/ /\ r.pc = "getAllowance" /\ q.pc \in {"derive", "done"} /\ IsPrefix(r.net, q.net)
               /\ q.pc = "derive" => (q.currentAllowance \notin {<<>>, <<0>>} /\ q.net = r.net)
            \/ /\ r.pc = "derive" /\ q.pc \in {"submit", "done"} /\ IsPrefix(r.net, q.net)
               /\ q.pc = "submit" => (~Mismatch(r.owner, r.sa)
                                       /\ q.net = r.net \o <<"sendUserOperation">>)
               /\ q.pc = "done" => q.net = r.net
            \/ /\ r.pc = "submit" /\ q.pc \in {"wait", "done"} /\ IsPrefix(r.net, q.net)
               /\ q.pc = "wait" => (q.userOpHash # <<>>
                                     /\ q.net = r.net \o <<"waitForUserOperationReceipt">>)
            \/ /\ r.pc = "wait" /\ q.pc = "done" /\ IsPrefix(r.net, q.net)
               /\ Confirmed(q) => userOps[r.userOpHash[1]].state # "queued"]_vars

\* an invocation has gone through every step and returned
C19_Witness ==
  \E i \in Invs :
    /\ Confirmed(rv[i])
    /\ rv[i].net = <<"allowance", "sendUserOperation", "waitForUserOperationReceipt">>

\* C20: an invocation issues at most one sendUserOperation and one inclusion
\* wait; a rejected submit or a timed-out wait is the last thing it does on the
\* network, and it ends the invocation with a raised failure.
C20_NoInternalRetry ==
  \A i \in Invs :
    /\ Count(rv[i].net, "sendUserOperation") <= 1
    /\ Count(rv[i].net, "waitForUserOperationReceipt") <= 1
    /\ \A e \in {"sendUserOperation:error", "waitForUserOperationReceipt:timeout"} :
         Issued(rv[i], e)
           => /\ rv[i].net[Len(rv[i].net)] = e
              /\ rv[i].pc = "done" /\ rv[i].result.kind = "throw"

\* one invocation ended on a rejected submit, the other on a timed-out wait
C20_Witness ==
  /\ \E i \in Invs : Issued(rv[i], "sendUserOperation:error")
  /\ \E i \in Invs : Issued(rv[i], "waitForUserOperationReceipt:timeout")

\* C21: a rejected submit ends the invocation with a raised failure whose
\* reason is classified from the gateway's text: the gas-sponsorship reason
\* when the text contains "paymaster"; the submission reason when it contains
\* "bundler" and not "paymaster"; else the gateway's own text, kept whole at
\* the end of the reason.
C21_SubmitFailureClassified ==
  [][\A i \in Invs, m \in GatewayErrors :
       SubmitRejected(i, m) =>
         /\ rv'[i].pc = "done" /\ rv'[i].result.kind = "throw"
         /\ LET reason == rv'[i].result.msg
            IN IF Includes(m, "paymaster") THEN reason = PrefixRevoke \o MsgPaymasterError
               ELSE IF Includes(m, "bundler") THEN reason = PrefixRevoke \o MsgBundlerError
               ELSE /\ Len(reason) >= Len(m)
                    /\ SubSeq(reason, Len(reason) - Len(m) + 1, Len(reason)) = m
                    /\ reason \notin {PrefixRevoke \o MsgPaymasterError,
                                      PrefixRevoke \o MsgBundlerError}]_vars

\* a submit was rejected and the invocation reported the gas-sponsorship reason
C21_Witness ==
  \E i \in Invs :
    /\ Issued(rv[i], "sendUserOperation:error")
    /\ Threw(rv[i], PrefixRevoke \o MsgPaymasterError)

\* C22: a revoke-confirm request whose transaction has no receipt yet is
\* answered "pending": HTTP 200 with success false and status "pending", one
\* "pending" audit record and no "failed" one, and the event keeps the status
\* it had.
C22_PendingOutcome ==
  [][(cf.pc = "getTransactionStatus" /\ cf'.pc # cf.pc /\ clientTx = "unmined") =>
       /\ cf'.pc = "done"
       /\ cf'.txStatus \in {"not_found", "pending"}
       /\ cf'.http = 200
       /\ cf'.body = [success |-> FALSE, status |-> "pending"]
       /\ cf'.audits = <<"pending">>
       /\ cf'.event = cf.event /\ cf'.event = cf'.event0]_vars

\* a request was answered while its transaction was unmined
C22_Witness ==
  /\ cf.pc = "done" /\ cf.txStatus = "not_found" /\ clientTx = "unmined"
  /\ cf.audits = <<"pending">> /\ cf.event # "revoked"

\* C23: on the manual route and on simulate, the risk event is "revoked" only
\* once executeGaslessRevoke has returned; while the call is in flight and
\* when it raised, the event keeps its status, and a raised failure leaves
\* one "failed" audit record; simulate still answers 200 with the event.
C23_RevokedOnlyAfterReturn ==
  \A i \in Invs :
    rv[i].path \in {"manual", "simulate"} =>
      /\ rv[i].event = "revoked" => (rv[i].pc = "done" /\ rv[i].result.kind = "return")
      /\ (rv[i].pc = "done" /\ rv[i].result.kind = "throw") =>
           /\ rv[i].event = "detected"
           /\ rv[i].audits = <<"failed">>
           /\ rv[i].path = "simulate" => rv[i].http = 200

\* a revoke attempt made by simulate raised after its submit was rejected
C23_Witness ==
  \E i \in Invs :
    /\ rv[i].path = "simulate" /\ rv[i].pc = "done" /\ rv[i].result.kind = "throw"
    /\ Issued(rv[i], "sendUserOperation:error")
    /\ rv[i].event = "detected" /\ rv[i].http = 200

\* a deploy request starts at client c in this step
Starts(c) == dp[c].pc \in {"idle", "done"} /\ dp'[c] # dp[c]

\* C24: the limiter's list for an owner changes only when an attempt of that
\* owner is admitted, and then it becomes the attempts of the last 60 seconds
\* plus this one; a rejected attempt leaves every list as it was; no later
\* step of a request (409, failure or success) takes an entry away; and an
\* attempt made when every recorded attempt is 60 seconds old or older is
\* admitted.
C24_OnlyAdmittedConsume ==
  [][/\ \A c \in Clients :
          Starts(c) =>
            LET o == dp'[c].owner
                old == deploymentRateLimits[o]
            IN /\ dp'[c].resp.status = 429 => UNCHANGED deploymentRateLimits
               /\ dp'[c].resp.status # 429 =>
                    /\ deploymentRateLimits'[o] =
                         Append(SelectSeq(old, LAMBDA ts : now - ts < RATE_LIMIT_WINDOW_MS), now)
                    /\ \A p \in Owners \ {o} : deploymentRateLimits'[p] = deploymentRateLimits[p]
               /\ (\A k \in DOMAIN old : now - old[k] >= RATE_LIMIT_WINDOW_MS)
                    => dp'[c].resp.status # 429
     /\ (\A c \in Clients : ~Starts(c)) => UNCHANGED deploymentRateLimits]_vars

\* an owner whose earlier admitted attempt sent a deployment transaction is
\* admitted again once that attempt is 60 seconds old, and it is gone from
\* the list
C24_Witness ==
  \E c \in Clients :
    /\ dp[c].pc = "getStored" /\ now >= RATE_LIMIT_WINDOW_MS
    /\ deploymentRateLimits[dp[c].owner] = <<now>>
    /\ \E h \in DOMAIN deployTxs :
         deployTxs[h].account = ToLower(SmartAccountAddress(dp[c].owner))

\* C25: no account address has two deployment transactions sent for it while
\* neither is mined (a second request that starts before the first deployment
\* is mined sends nothing).
C25_OneDeploymentPerAddress ==
  \A h1, h2 \in DOMAIN deployTxs :
    (/\ deployTxs[h1].account = deployTxs[h2].account
     /\ deployTxs[h1].state = "pending" /\ deployTxs[h2].state = "pending") => h1 = h2

\* C26: a deploy request for an address that createSmartAccount returned for
\* the request's owner does not fail with the address-mismatch error.
C26_CreatedAddressPassesCheck ==
  \A c \in Clients :
    (dp[c].pc = "done" /\ dp[c].sa \in created[dp[c].owner])
      => dp[c].resp.error # PrefixDeploy \o MsgDeployMismatch

\* C27: an address has at most one active polling timer, and once
\* stopMonitoringAddress has returned with no start in progress (and none
\* called since) it has none.
C27_OneTimerPerAddress ==
  \A a \in Accounts :
    /\ Cardinality(ActiveTimers(a)) <= 1
    /\ stopped => ActiveTimers(a) = {}

\* C28: the monitor stores at most one risk event per observed transaction
\* of the account, and attempts at most one automatic revoke for it.
C28_RecordedOnce ==
  \A x \in TxHashes : riskEvents[x].events <= 1 /\ riskEvents[x].revokes <= 1

\* C29: an invocation reports the bundler-submission or the gas-sponsorship
\* reason only after it issued a gateway call (sendUserOperation), never when
\* it aborted at the configuration checks or at the address check.
C29_GatewayReasonsNeedGatewayCall ==
  \A i \in Invs :
    (\/ Threw(rv[i], PrefixRevoke \o MsgBundlerError)
     \/ Threw(rv[i], PrefixRevoke \o MsgPaymasterError))
      => Issued(rv[i], "sendUserOperation")

\* C30: once a socket's "close" handler has run the socket is in no
\* account's subscriber set, and a broadcast for an account goes only to
\* sockets that subscribed to that account and are open when it is made.
C30_SubscriberSets ==
  [][/\ \A w \in Sockets :
          sockets'[w] = "closed" => \A a \in AddrForms : w \notin wsClients'[a]
     /\ \A a \in AddrForms :
          Broadcast(a) =>
            sent'.to \subseteq {w \in Sockets : <<w, a>> \in subscribed /\ sockets[w] = "open"}]_vars

\* a socket that had subscribed to an account has closed, and a broadcast for
\* that account went to the other socket only
C30_Witness ==
  \E w \in Sockets :
    /\ sockets[w] = "closed" /\ <<w, sent.account>> \in subscribed
    /\ sent.to = Sockets \ {w}

====
